---------------------------- MODULE Spec2Model ----------------------------
(***************************************************************************)
(* Model of experiments/failure/qemu/vm/build-image.py: the serial-console *)
(* provisioning run (Serial, monitor_cmd, start_qemu, wait_for_socket,     *)
(* phase1_install, phase2_configure, main) together with its environment:  *)
(* the QEMU instances, their endpoint files and the guest behind the       *)
(* console.                                                                *)
(*                                                                         *)
(* Byte strings are sequences of one-character strings.  Command lines are *)
(* kept as the literal strings of the source.                              *)
(*                                                                         *)
(* Time.  Only differences between time.time() and a deadline are ever     *)
(* observed by the program, so `clock` is the time elapsed since the       *)
(* current wait computed its deadline (0 when no wait is in progress).  In *)
(* wait_for_socket one tick is a                                           *)
(* quarter of a second.  In read_until one tick is one socket timeout      *)
(* (settimeout(1): one second) with the scripted guest; with the free      *)
(* guest one tick stands for TimeScale consecutive socket timeouts, which  *)
(* keeps the order of the step timeouts and shortens the silent stretches. *)
(***************************************************************************)
EXTENDS Integers, Sequences, FiniteSets, TLC

(***************************************************************************)
(* Bounds of the model.                                                    *)
(***************************************************************************)
\* seconds per tick of read_until's clock with the free guest
TimeScale == 100
\* chunks the free guest may have written that no match has discarded yet
MaxPending == 2
\* largest reply delay, in seconds, of the scripted guest
MaxFakeDelay == 2

(***************************************************************************)
(* Program constants.                                                      *)
(***************************************************************************)
\* wait_for_socket(path, timeout=10), in quarter seconds
SocketTimeout == 40
\* time.sleep(0.5) in wait_for_socket, in quarter seconds
PollInterval == 2
\* cmd(self, command, prompt="~#", timeout=300)
DefaultTimeout == 300

SERIAL_SOCK == "/tmp/qemu-serial.sock"
MONITOR_SOCK == "/tmp/qemu-monitor.sock"

LoginPattern == <<"l", "o", "g", "i", "n", ":">>
PromptPattern == <<"~", "#">>
NoPattern == <<>>

(***************************************************************************)
(* bytes `in` bytes: pat occurs in s as a contiguous substring.            *)
(***************************************************************************)
Contains(s, pat) ==
    \E i \in 0..(Len(s) - Len(pat)) : SubSeq(s, i + 1, i + Len(pat)) = pat

(***************************************************************************)
(* The statements of a phase that touch the console, in source order.      *)
(* f"...v{ALPINE_VERSION}/main" is written out with ALPINE_VERSION = 3.21. *)
(***************************************************************************)
RU(pat, t) == [op |-> "read_until", text |-> "", pat |-> pat, timeout |-> t]
SD(line) == [op |-> "send", text |-> line, pat |-> NoPattern, timeout |-> 0]
CMD(line, t) == [op |-> "cmd", text |-> line, pat |-> PromptPattern, timeout |-> t]

Phase1Script ==
    << RU(LoginPattern, 300),
       SD("root"),
       RU(PromptPattern, 30),
       CMD("ip link set eth0 up", 30),
       CMD("udhcpc -i eth0", 60),
       CMD("echo 'nameserver 8.8.8.8' > /etc/resolv.conf", 10),
       CMD("mkdir -p /etc/network", 10),
       CMD("printf 'auto lo\\niface lo inet loopback\\n\\nauto eth0\\niface eth0 inet dhcp\\n' > /etc/network/interfaces", 10),
       CMD("echo 'https://dl-cdn.alpinelinux.org/alpine/v3.21/main' > /etc/apk/repositories", 10),
       CMD("echo 'https://dl-cdn.alpinelinux.org/alpine/v3.21/community' >> /etc/apk/repositories", 10),
       CMD("apk update", 120),
       SD("echo y | setup-disk -m sys /dev/vda"),
       RU(PromptPattern, 600),
       SD("poweroff") >>

Phase2Script ==
    << RU(LoginPattern, 300),
       SD("root"),
       RU(PromptPattern, 30),
       CMD("ip link set eth0 up", 30),
       CMD("udhcpc -i eth0", 60),
       CMD("echo 'nameserver 8.8.8.8' > /etc/resolv.conf", 10),
       CMD("rc-update add networking boot", 30),
       CMD("apk update", 120),
       CMD("apk add xorg-server x11vnc xfce4 xfce4-terminal thunar dbus font-noto", 900),
       CMD("rc-update add dbus", DefaultTimeout),
       CMD("rc-update add local default", DefaultTimeout),
       CMD("which Xvfb || echo 'MISSING: Xvfb'", DefaultTimeout),
       CMD("which x11vnc || echo 'MISSING: x11vnc'", DefaultTimeout),
       CMD("echo '#!/bin/sh' > /etc/local.d/desktop.start", DefaultTimeout),
       CMD("echo 'exec > /dev/ttyAMA0 2>&1' >> /etc/local.d/desktop.start", DefaultTimeout),
       CMD("echo 'echo [desktop] Starting Xvfb...' >> /etc/local.d/desktop.start", DefaultTimeout),
       CMD("echo 'export DISPLAY=:0' >> /etc/local.d/desktop.start", DefaultTimeout),
       CMD("echo 'Xvfb :0 -screen 0 1280x720x24 -ac &' >> /etc/local.d/desktop.start", DefaultTimeout),
       CMD("echo 'sleep 2' >> /etc/local.d/desktop.start", DefaultTimeout),
       CMD("echo 'echo [desktop] Starting XFCE...' >> /etc/local.d/desktop.start", DefaultTimeout),
       CMD("echo 'dbus-launch startxfce4 &' >> /etc/local.d/desktop.start", DefaultTimeout),
       CMD("echo 'sleep 3' >> /etc/local.d/desktop.start", DefaultTimeout),
       CMD("echo 'echo [desktop] Starting x11vnc...' >> /etc/local.d/desktop.start", DefaultTimeout),
       CMD("echo 'x11vnc -display :0 -forever -nopw -listen 0.0.0.0 -rfbport 5900 &' >> /etc/local.d/desktop.start", DefaultTimeout),
       CMD("echo 'echo [desktop] Done' >> /etc/local.d/desktop.start", DefaultTimeout),
       CMD("chmod +x /etc/local.d/desktop.start", DefaultTimeout),
       CMD("cat /etc/local.d/desktop.start", DefaultTimeout),
       CMD("passwd -d root", DefaultTimeout),
       SD("poweroff") >>

Script(p) == IF p = 1 THEN Phase1Script ELSE Phase2Script

VARIABLES
    pc,         \* position of the single thread of control
    phase,      \* 1: phase1_install, 2: phase2_configure
    step,       \* index into Script(phase) of the statement to execute
    err,        \* the exception that ended the run, NoError otherwise
    clock,      \* time elapsed since the current wait computed its deadline
    deadline,   \* the current wait's deadline
    wake,       \* end of the current time.sleep(0.5) of wait_for_socket
    buf,        \* Serial.buf
    chan,       \* bytes the guest wrote to the console that recv has not returned yet
    sock,       \* Serial.sock: "none", "open", "closed"
    serPeer,    \* the instance Serial.sock is connected to
    peerClosed, \* the instance behind Serial.sock has gone
    sent,       \* sent[p]: the lines sendall wrote to the console in phase p
    files,      \* per endpoint file: the instance that created it, NoFile if absent
    inst,       \* per instance: "absent", "starting", "up", "down"
    stopReq,    \* instances that were told to stop ("poweroff" or monitor "quit")
    mon,        \* monitor_cmd's socket: "none", "open", "closed"
    monPeer,    \* the instance monitor_cmd is connected to
    guest,      \* "free": any guest; "fake": the scripted guest
    fakeDelay,  \* the scripted guest's fixed reply delay
    banner,     \* whether the scripted guest greets a new console with "login:"
    bannerDue,  \* the scripted guest still owes the greeting
    due,        \* ticks until the scripted guest's reply, -1 if none is pending
    emitted,    \* chunks the free guest wrote since the last match
    callRead,   \* history: bytes recv returned during the current read_until call
    ru,         \* history: how the read_until call that just ended did so (and
                \* whether a recv of the call returned b""), and
                \* whether its pattern was in self.buf, in the last recv's
                \* data, in the bytes the call received, in the bytes the
                \* guest wrote since the last send; whether sys.stdout got
                \* the bytes the call received; whether bytes, and a whole
                \* copy of the pattern, followed the match point
    sinceSend,  \* history: bytes the guest emitted since the last line was written
    matches,    \* history: matches[p]: read_until calls that returned in phase p
    appearedAt, \* history: clock at which the console endpoint appeared, -1 if not yet
    wfs,        \* history: how the last wait_for_socket call ended, when, and
                \* whose endpoint file it saw
    confirm,    \* history: how the last monitor_cmd("quit") went: "none" (not
                \* called), "connected", or the exception that left it
    atLaunch,   \* history: atLaunch[p]: what start_qemu of phase p launched into:
                \* the endpoint files and running instances it left in place,
                \* and whether a monitor_cmd("quit") had been attempted
    sink,       \* what the current read_until call wrote to sys.stdout
    closes,     \* history: closes[p]: calls of s.close() in phase p
    monChan,    \* bytes the monitor wrote that monitor_cmd's recv has not returned
                \* yet: "B" a piece of the banner, "R" the response
    monTodo,    \* what the monitor is still going to write on this connection
    resp,       \* what the last monitor_cmd call returned
    monLate     \* history: what the monitor wrote after the banner was drained

progVars == <<pc, phase, step, err>>
timeVars == <<clock, deadline, wake>>
serVars == <<buf, chan, sock, serPeer, peerClosed, sent>>
envVars == <<files, inst, stopReq>>
monVars == <<mon, monPeer>>
guestVars == <<guest, fakeDelay, banner, bannerDue, due, emitted>>
histVars == <<callRead, ru, sinceSend, matches, appearedAt, wfs, confirm, atLaunch>>
outVars == <<sink, closes>>
monIO == <<monChan, monTodo, resp, monLate>>
vars == <<progVars, timeVars, serVars, envVars, monVars, guestVars, histVars,
          outVars, monIO>>

\* the monitor's greeting: its banner line and its first prompt
MonitorBanner == <<"B", "B">>

NoFile == 0 - 1
Instances == 0..2
\* an exception: its class and what its message is made of
Error(type, text, pattern, path) ==
    [type |-> type, text |-> text, pattern |-> pattern, path |-> path]
NoError == Error("none", "", NoPattern, "")
NoResult ==
    [outcome |-> "none", inBuf |-> FALSE, inData |-> FALSE, inCall |-> FALSE,
     inFresh |-> FALSE, mirrored |-> FALSE, trailing |-> FALSE,
     lost |-> FALSE, eof |-> FALSE]
Stmt == Script(phase)[step]

\* a timeout in seconds as ticks of read_until's clock
Ticks(seconds) ==
    IF guest = "fake" THEN seconds ELSE (seconds + TimeScale - 1) \div TimeScale

\* what the free guest may write in one go
GuestChunks == {LoginPattern, PromptPattern, <<"~">>, <<"#">>}

(***************************************************************************)
(* Initial state: main() is about to call phase1_install().  An earlier    *)
(* run may have left nothing, its endpoint files, or a still running       *)
(* instance (instance 0) with its endpoint files.  What was left matters   *)
(* to start_qemu only, which runs before there is a guest, so the          *)
(* leftovers are explored with the scripted guest and the guest's freedom  *)
(* from a clean disk.                                                      *)
(***************************************************************************)
Leftovers == {"clean", "files", "running"}

Init ==
    /\ pc = "start_qemu" /\ phase = 1 /\ step = 1 /\ err = NoError
    /\ clock = 0 /\ deadline = 0 /\ wake = 0
    /\ buf = <<>> /\ chan = <<>> /\ sock = "none" /\ serPeer = NoFile
    /\ peerClosed = FALSE
    /\ sent = [p \in 1..2 |-> <<>>]
    /\ guest \in {"free", "fake"}
    /\ \E left \in (IF guest = "fake" THEN Leftovers ELSE {"clean"}) :
         /\ inst = [i \in Instances |->
                      IF i = 0 /\ left = "running" THEN "up"
                      ELSE IF i = 0 /\ left = "files" THEN "down" ELSE "absent"]
         /\ files = IF left = "clean"
                    THEN [serial |-> NoFile, monitor |-> NoFile]
                    ELSE [serial |-> 0, monitor |-> 0]
    /\ stopReq = {} /\ mon = "none" /\ monPeer = NoFile
    /\ fakeDelay \in (IF guest = "fake" THEN 0..MaxFakeDelay ELSE {0})
    /\ banner \in (IF guest = "fake" THEN BOOLEAN ELSE {FALSE})
    /\ bannerDue = FALSE /\ due = 0 - 1 /\ emitted = 0
    /\ callRead = <<>> /\ ru = NoResult
    /\ sinceSend = <<>>
    /\ matches = [p \in 1..2 |-> 0]
    /\ appearedAt = 0 - 1 /\ wfs = [result |-> "none", at |-> 0, seen |-> NoFile]
    /\ confirm = "none"
    /\ atLaunch = [p \in 1..2 |->
                     [launched |-> FALSE, serial |-> FALSE, monitor |-> FALSE,
                      running |-> {}, confirmed |-> FALSE]]
    /\ sink = <<>> /\ closes = [p \in 1..2 |-> 0]
    /\ monChan = <<>> /\ monTodo = <<>> /\ resp = <<>> /\ monLate = <<>>

(***************************************************************************)
(* raise: no function of the program catches it (but for the one           *)
(* try/except around monitor_cmd), so it ends main() and the process.      *)
(***************************************************************************)
\* (mutant) a failure starts the phase again
RaiseRetry(e) == pc' = "start_qemu" /\ err' = e /\ UNCHANGED <<phase, step>>

\* (mutant) main() goes on to the next phase after a failure
RaiseSkipsPhase(e) == pc' = "phase_end" /\ err' = e /\ UNCHANGED <<phase, step>>

\* (mutant) a failure runs the end of the phase: close, quit
RaiseThenCleanup(e) == pc' = "close" /\ err' = e /\ UNCHANGED <<phase, step>>

Raise(e) == pc' = "failed" /\ err' = e /\ UNCHANGED <<phase, step>>

\* the scripted guest has something to do before time may pass
FakeBusy ==
    guest = "fake" /\ (due = 0 \/ bannerDue \/ inst[phase] = "starting")

(***************************************************************************)
(* start_qemu: remove the endpoint files, launch the instance; then the    *)
(* caller enters wait_for_socket(SERIAL_SOCK), which computes its          *)
(* deadline.                                                               *)
(***************************************************************************)
\* (mutant) only the console endpoint file is removed
RemoveSerialOnly(f) == [f EXCEPT !.serial = NoFile]

\* (mutant) only the control endpoint file is removed
RemoveMonitorOnly(f) == [f EXCEPT !.monitor = NoFile]

\* os.remove(sock) for both paths, where the file exists
RemoveSockets(f) == [serial |-> NoFile, monitor |-> NoFile]

start_qemu ==
    /\ UNCHANGED monIO
    /\ UNCHANGED outVars
    /\ pc = "start_qemu"
    /\ files' = RemoveSockets(files)
    /\ atLaunch' = [atLaunch EXCEPT ![phase] =
                      [launched |-> TRUE,
                       serial |-> files'.serial # NoFile,
                       monitor |-> files'.monitor # NoFile,
                       running |-> {i \in Instances : inst[i] \in {"starting", "up"}},
                       confirmed |-> confirm # "none"]]
    /\ \/ /\ inst' = [inst EXCEPT ![phase] = "starting"]
          /\ pc' = "wfs_poll" /\ clock' = 0 /\ deadline' = SocketTimeout
          /\ appearedAt' = 0 - 1 /\ wfs' = [result |-> "none", at |-> 0, seen |-> NoFile]
          /\ UNCHANGED <<phase, step, err, wake>>
       \/ /\ guest = "free"
          /\ Raise(Error("CalledProcessError", "qemu-system-aarch64", NoPattern, ""))
          /\ UNCHANGED <<inst, timeVars, appearedAt, wfs>>
    /\ UNCHANGED <<serVars, stopReq, monVars, guestVars, callRead, ru, sinceSend,
                   matches, confirm>>

(***************************************************************************)
(* wait_for_socket: one evaluation of the loop condition and body up to    *)
(* the sleep; and one tick of the sleep.                                   *)
(***************************************************************************)
\* (mutant) one more poll at the deadline
PollerLoopCondInclusive == clock <= deadline

\* while time.time() < deadline
PollerLoopCond == clock < deadline

wait_for_socket_poll ==
    /\ UNCHANGED monIO
    /\ UNCHANGED outVars
    /\ pc = "wfs_poll"
    /\ IF PollerLoopCond
       THEN IF files.serial # NoFile
            THEN /\ pc' = "connect"
                 /\ wfs' = [result |-> "ok", at |-> clock, seen |-> files.serial]
                 /\ clock' = 0 /\ deadline' = 0 /\ wake' = 0
                 /\ UNCHANGED <<phase, step, err>>
            ELSE /\ pc' = "wfs_sleep" /\ wake' = clock + PollInterval
                 /\ UNCHANGED <<phase, step, err, wfs, clock, deadline>>
       ELSE /\ Raise(Error("TimeoutError", "Socket not created: ", NoPattern,
                        SERIAL_SOCK))
            /\ wfs' = [result |-> "timeout", at |-> clock, seen |-> NoFile]
            /\ UNCHANGED timeVars
    /\ UNCHANGED <<serVars, envVars, monVars, guestVars, callRead,
                   ru, sinceSend, matches, appearedAt, confirm, atLaunch>>

wait_for_socket_sleep ==
    /\ UNCHANGED monIO
    /\ UNCHANGED outVars
    /\ pc = "wfs_sleep"
    /\ ~FakeBusy
    /\ clock' = clock + 1
    /\ pc' = IF clock' >= wake THEN "wfs_poll" ELSE "wfs_sleep"
    /\ UNCHANGED <<phase, step, err, deadline, wake, serVars, envVars, monVars,
                   guestVars, histVars>>

(***************************************************************************)
(* Serial.__init__: connect to the console endpoint.                       *)
(***************************************************************************)
Serial_init ==
    /\ UNCHANGED monIO
    /\ pc = "connect"
    /\ IF files.serial = NoFile
       THEN /\ Raise(Error("FileNotFoundError", "", NoPattern, SERIAL_SOCK))
            /\ UNCHANGED <<serVars, bannerDue, emitted, appearedAt, wfs, sinceSend,
                           confirm>>
       ELSE IF inst[files.serial] # "up"
       THEN /\ Raise(Error("ConnectionRefusedError", "", NoPattern, SERIAL_SOCK))
            /\ UNCHANGED <<serVars, bannerDue, emitted, appearedAt, wfs, sinceSend,
                           confirm>>
       ELSE /\ sock' = "open" /\ serPeer' = files.serial /\ peerClosed' = FALSE
            /\ buf' = <<>> /\ chan' = <<>>
            /\ bannerDue' = (guest = "fake" /\ banner)
            /\ emitted' = 0 /\ sinceSend' = <<>>
            /\ appearedAt' = 0 - 1 /\ wfs' = [result |-> "none", at |-> 0, seen |-> NoFile]
            /\ confirm' = "none"
            /\ pc' = "step" /\ step' = 1
            /\ UNCHANGED <<phase, err, sent>>
    /\ sink' = <<>> /\ UNCHANGED closes
    /\ UNCHANGED <<timeVars, envVars, monVars, guest, fakeDelay, banner, due,
                   callRead, ru, matches, atLaunch>>

(***************************************************************************)
(* Serial.send, Serial.read_until and Serial.cmd.                          *)
(***************************************************************************)
\* sendall((text + "\n").encode()) reaches the guest behind the console; the
\* scripted guest answers every line, "poweroff" too, and stops on the
\* monitor's "quit" only
\* (mutant) the line is written twice
SendLineTwice(line) ==
    /\ sent' = [sent EXCEPT ![phase] = Append(Append(@, line), line)]
    /\ sinceSend' = <<>>
    /\ due' = IF guest = "fake"
              THEN (IF line = "root" THEN 0 ELSE fakeDelay)
              ELSE due
    /\ stopReq' = IF line = "poweroff" /\ guest = "free"
                  THEN stopReq \cup {serPeer}
                  ELSE stopReq

SendLine(line) ==
    /\ sent' = [sent EXCEPT ![phase] = Append(@, line)]
    /\ sinceSend' = <<>>
    /\ due' = IF guest = "fake"
              THEN (IF line = "root" THEN 0 ELSE fakeDelay)
              ELSE due
    /\ stopReq' = IF line = "poweroff" /\ guest = "free"
                  THEN stopReq \cup {serPeer}
                  ELSE stopReq

\* deadline = time.time() + timeout, before the first pass of the loop
EnterReadUntil(timeout) ==
    /\ pc' = "read" /\ clock' = 0 /\ deadline' = Ticks(timeout)
    /\ callRead' = <<>> /\ ru' = NoResult /\ sink' = <<>>

\* while time.time() < deadline
ReadLoopCond == clock < deadline

\* (mutant) the pattern is looked for in the new data only
PatternFoundInData(acc, data, pat) == Contains(data, pat)

\* `if pattern in self.buf`, acc being self.buf after `self.buf += data`
PatternFound(acc, data, pat) == Contains(acc, pat)

\* (mutant) the match leaves the buffer as it is
BufKept(acc) == acc

\* (mutant) the match keeps what followed the match point
BufKeepsTrailing(acc) ==
    LET i == CHOOSE k \in 0..(Len(acc) - Len(Stmt.pat)) :
                 /\ SubSeq(acc, k + 1, k + Len(Stmt.pat)) = Stmt.pat
                 /\ \A j \in 0..(k - 1) :
                        SubSeq(acc, j + 1, j + Len(Stmt.pat)) # Stmt.pat
    IN SubSeq(acc, i + Len(Stmt.pat) + 1, Len(acc))

\* self.buf after a match
BufAfterMatch(acc) == <<>>

\* (mutant) the timeout empties the buffer
BufDroppedOnTimeout(acc) == <<>>

\* self.buf after the loop ended without a match: nothing assigns to it
BufAfterTimeout(acc) == acc

\* (mutant) the whole buffer is written out after every read
SinkWriteBuf(acc, data) == acc

\* sys.stdout.buffer.write(data); flush()
SinkWrite(acc, data) == data

\* what follows the first occurrence of pat in s (pat occurs in s)
AfterMatch(s, pat) ==
    LET i == CHOOSE k \in 0..(Len(s) - Len(pat)) :
                 /\ SubSeq(s, k + 1, k + Len(pat)) = pat
                 /\ \A j \in 0..(k - 1) : SubSeq(s, j + 1, j + Len(pat)) # pat
    IN SubSeq(s, i + Len(pat) + 1, Len(s))

read_until_enter ==
    /\ UNCHANGED monIO
    /\ pc = "step" /\ Stmt.op = "read_until"
    /\ EnterReadUntil(Stmt.timeout)
    /\ UNCHANGED closes
    /\ UNCHANGED <<phase, step, err, wake, serVars, envVars, monVars, guestVars,
                   sinceSend, matches, appearedAt, wfs, confirm, atLaunch>>

Serial_send ==
    /\ UNCHANGED monIO
    /\ UNCHANGED outVars
    /\ pc = "step" /\ Stmt.op = "send"
    /\ IF peerClosed
       THEN /\ Raise(Error("BrokenPipeError", "", NoPattern, ""))
            /\ UNCHANGED <<sent, sinceSend, due, stopReq>>
       ELSE /\ SendLine(Stmt.text)
            /\ IF step = Len(Script(phase))
               THEN pc' = "close" /\ step' = step
               ELSE pc' = "step" /\ step' = step + 1
            /\ UNCHANGED <<phase, err>>
    /\ callRead' = <<>> /\ ru' = NoResult
    /\ UNCHANGED <<timeVars, buf, chan, sock, serPeer, peerClosed, files, inst,
                   monVars, guest, fakeDelay, banner, bannerDue, emitted,
                   matches, appearedAt, wfs, confirm, atLaunch>>

\* (mutant) cmd waits for the prompt without writing the command
CmdBodyNoSend(line, timeout) ==
    EnterReadUntil(timeout) /\ UNCHANGED <<sent, sinceSend, due, stopReq>>

\* self.send(command); self.read_until(prompt, timeout)
CmdBody(line, timeout) == SendLine(line) /\ EnterReadUntil(timeout)

Serial_cmd ==
    /\ UNCHANGED <<monIO, closes>>
    /\ pc = "step" /\ Stmt.op = "cmd"
    /\ IF peerClosed
       THEN /\ Raise(Error("BrokenPipeError", "", NoPattern, ""))
            /\ UNCHANGED <<sent, sinceSend, due, stopReq, clock, deadline, sink>>
            /\ callRead' = <<>> /\ ru' = NoResult
       ELSE /\ CmdBody(Stmt.text, Stmt.timeout)
            /\ UNCHANGED <<phase, step, err>>
    /\ UNCHANGED <<wake, buf, chan, sock, serPeer, peerClosed, files, inst,
                   monVars, guest, fakeDelay, banner, bannerDue, emitted,
                   matches, appearedAt, wfs, confirm, atLaunch>>

\* recv returned data
read_until_recv ==
    /\ UNCHANGED <<monIO, closes>>
    /\ pc = "read" /\ ReadLoopCond /\ chan # <<>>
    /\ LET data == chan
           acc == buf \o data
           out == sink \o SinkWrite(acc, data)
       IN /\ chan' = <<>>
          /\ IF PatternFound(acc, data, Stmt.pat)
             THEN /\ buf' = BufAfterMatch(acc)
                  /\ ru' = [outcome |-> "ok",
                            inBuf |-> Contains(acc, Stmt.pat),
                            inData |-> Contains(data, Stmt.pat),
                            inCall |-> Contains(callRead \o data, Stmt.pat),
                            inFresh |-> Contains(sinceSend, Stmt.pat),
                            mirrored |-> (out = callRead \o data),
                            trailing |-> Contains(acc, Stmt.pat)
                                         /\ AfterMatch(acc, Stmt.pat) # <<>>,
                            lost |-> Contains(acc, Stmt.pat)
                                     /\ Contains(AfterMatch(acc, Stmt.pat),
                                                 Stmt.pat),
                            eof |-> ru.eof]
                  /\ matches' = [matches EXCEPT ![phase] = @ + 1]
                  /\ emitted' = 0 /\ sinceSend' = <<>> /\ callRead' = <<>>
                  /\ sink' = <<>>
                  /\ clock' = 0 /\ deadline' = 0
                  /\ pc' = "step" /\ step' = step + 1
             ELSE /\ buf' = acc
                  /\ callRead' = callRead \o data
                  /\ sink' = out
                  /\ UNCHANGED <<pc, step, ru, matches, emitted, sinceSend,
                                 clock, deadline>>
    /\ UNCHANGED <<phase, err, wake, sock, serPeer, peerClosed, sent, envVars,
                   monVars, guest, fakeDelay, banner, bannerDue, due,
                   appearedAt, wfs, confirm, atLaunch>>

\* (mutant) the deadline moves along with the time
read_until_timeout_frozen ==
    /\ pc = "read" /\ ReadLoopCond /\ chan = <<>> /\ ~peerClosed
    /\ ~FakeBusy
    /\ due' = IF due > 0 THEN due - 1 ELSE due
    /\ UNCHANGED <<progVars, timeVars, serVars, envVars, monVars, guest,
                   fakeDelay, banner, bannerDue, emitted, histVars, outVars,
                   monIO>>

\* recv raised socket.timeout: continue
read_until_timeout ==
    /\ UNCHANGED monIO
    /\ UNCHANGED outVars
    /\ pc = "read" /\ ReadLoopCond /\ chan = <<>> /\ ~peerClosed
    /\ ~FakeBusy
    /\ clock' = clock + 1
    /\ due' = IF due > 0 THEN due - 1 ELSE due
    /\ UNCHANGED <<progVars, deadline, wake, serVars, envVars, monVars, guest,
                   fakeDelay, banner, bannerDue, emitted, histVars>>

\* (mutant) an empty read ends the wait with an error
read_until_eof_raises ==
    /\ pc = "read" /\ ReadLoopCond /\ chan = <<>> /\ peerClosed
    /\ Raise(Error("ConnectionError", "", NoPattern, ""))
    /\ ru' = [ru EXCEPT !.eof = TRUE]
    /\ UNCHANGED <<timeVars, serVars, envVars, monVars, guestVars, callRead,
                   sinceSend, matches, appearedAt, wfs, confirm, atLaunch,
                   outVars, monIO>>

\* recv returned b"" (the peer closed): `if data` is false, next pass
read_until_eof ==
    /\ UNCHANGED monIO
    /\ UNCHANGED outVars
    /\ pc = "read" /\ ReadLoopCond /\ chan = <<>> /\ peerClosed
    /\ clock' = clock + 1
    /\ ru' = [ru EXCEPT !.eof = TRUE]
    /\ UNCHANGED <<progVars, deadline, wake, serVars, envVars, monVars, guestVars,
                   callRead, sinceSend, matches, appearedAt, wfs, confirm,
                   atLaunch>>

\* raise TimeoutError(f"Timeout waiting for: {pattern}")
\* (mutant) the message leaves the pattern out
TimeoutMessageBare(pat) == Error("TimeoutError", "Timeout waiting for: ", NoPattern, "")

TimeoutMessage(pat) == Error("TimeoutError", "Timeout waiting for: ", pat, "")

\* (mutant) the timeout is reported by a return value nobody looks at
read_until_expired_returns ==
    /\ UNCHANGED monIO
    /\ UNCHANGED outVars
    /\ pc = "read" /\ ~ReadLoopCond
    /\ pc' = "step" /\ step' = step + 1
    /\ clock' = 0 /\ deadline' = 0
    /\ UNCHANGED <<phase, err, wake, serVars, envVars, monVars, guestVars,
                   histVars>>

\* the loop condition is false
read_until_expired ==
    /\ UNCHANGED monIO
    /\ UNCHANGED outVars
    /\ pc = "read" /\ ~ReadLoopCond
    /\ Raise(TimeoutMessage(Stmt.pat))
    /\ buf' = BufAfterTimeout(buf)
    /\ ru' = [outcome |-> "timeout",
              inBuf |-> Contains(buf, Stmt.pat),
              inData |-> FALSE,
              inCall |-> Contains(callRead, Stmt.pat),
              inFresh |-> Contains(sinceSend, Stmt.pat),
              mirrored |-> (sink = callRead),
              trailing |-> FALSE,
              lost |-> FALSE,
              eof |-> ru.eof]
    /\ UNCHANGED <<timeVars, chan, sock, serPeer, peerClosed, sent, envVars,
                   monVars, guestVars, callRead, sinceSend, matches, appearedAt,
                   wfs, confirm, atLaunch>>

\* (mutant) the phase goes on to the monitor without closing the console
Serial_close_skipped ==
    /\ pc = "close" /\ pc' = "mon_connect"
    /\ UNCHANGED <<phase, step, err, timeVars, serVars, envVars, monVars,
                   guestVars, histVars, outVars, monIO>>

\* time.sleep(15) or time.sleep(10), then s.close(): the connection is gone,
\* and with it what the guest wrote or still had to write to it
Serial_close ==
    /\ UNCHANGED monIO
    /\ closes' = [closes EXCEPT ![phase] = @ + 1] /\ UNCHANGED sink
    /\ pc = "close"
    /\ sock' = "closed"
    /\ chan' = <<>> /\ peerClosed' = FALSE
    /\ due' = 0 - 1 /\ bannerDue' = FALSE /\ emitted' = 0 /\ sinceSend' = <<>>
    /\ pc' = "mon_connect"
    /\ UNCHANGED <<phase, step, err, timeVars, buf, serPeer, sent, envVars,
                   monVars, guest, fakeDelay, banner, callRead, ru, matches,
                   appearedAt, wfs, confirm, atLaunch>>

(***************************************************************************)
(* monitor_cmd("quit") inside try/except (ConnectionRefusedError,          *)
(* FileNotFoundError): pass; then time.sleep(3) and the phase returns.     *)
(***************************************************************************)
\* (mutant) a missing endpoint file is not caught
ConfirmCatchesRefusedOnly(type) == type \in {"ConnectionRefusedError"}

\* (mutant) except OSError
ConfirmCatchesOSError(type) == TRUE

ConfirmCatches(type) == type \in {"ConnectionRefusedError", "FileNotFoundError"}

\* an exception leaves monitor_cmd inside the phase's try statement
MonitorRaises(e) ==
    /\ confirm' = e.type
    /\ IF ConfirmCatches(e.type)
       THEN pc' = "phase_end" /\ UNCHANGED <<phase, step, err>>
       ELSE Raise(e)

ConnectError(file) ==
    IF file = NoFile THEN "FileNotFoundError"
    ELSE IF inst[file] # "up" THEN "ConnectionRefusedError"
    ELSE "none"

monitor_cmd_connect ==
    /\ pc = "mon_connect"
    /\ LET e == ConnectError(files.monitor)
       IN IF e = "none"
          THEN /\ mon' = "open" /\ monPeer' = files.monitor
               /\ monChan' = <<>> /\ monTodo' = MonitorBanner
               /\ resp' = <<>> /\ monLate' = <<>>
               /\ pc' = "mon_drain"
               /\ confirm' = "connected"
               /\ UNCHANGED <<phase, step, err>>
          ELSE /\ MonitorRaises(Error(e, "", NoPattern, MONITOR_SOCK))
               /\ UNCHANGED <<monVars, monIO>>
    /\ UNCHANGED <<timeVars, serVars, envVars, guestVars, callRead, ru, sinceSend,
                   matches, appearedAt, wfs, atLaunch, outVars>>

\* (mutant) the banner is not read
MonDrainNothing(pending) == <<>>

\* what the one sock.recv(4096) before the command returns: what has arrived
MonDrain(pending) == pending

\* time.sleep(0.5); try: sock.recv(4096) except socket.timeout: pass
monitor_cmd_drain ==
    /\ pc = "mon_drain"
    /\ monChan' = SubSeq(monChan, Len(MonDrain(monChan)) + 1, Len(monChan))
    /\ pc' = "mon_send"
    /\ UNCHANGED <<phase, step, err, timeVars, serVars, envVars, monVars,
                   guestVars, histVars, outVars, monTodo, resp, monLate>>

\* sock.sendall((cmd + "\n").encode())
monitor_cmd_send ==
    /\ pc = "mon_send"
    /\ IF inst[monPeer] # "up"
       THEN /\ MonitorRaises(Error("BrokenPipeError", "", NoPattern, ""))
            /\ UNCHANGED <<stopReq, monTodo>>
       ELSE /\ stopReq' = stopReq \cup {monPeer}
            /\ monTodo' = Append(monTodo, "R")
            /\ pc' = "mon_recv"
            /\ UNCHANGED <<phase, step, err, confirm>>
    /\ UNCHANGED <<timeVars, serVars, files, inst, monVars, guestVars, callRead,
                   ru, sinceSend, matches, appearedAt, wfs, atLaunch,
                   outVars, monChan, resp, monLate>>

\* time.sleep(0.5); resp = sock.recv(4096).decode(), or "" on socket.timeout;
\* sock.close(); return resp
monitor_cmd_recv ==
    /\ pc = "mon_recv"
    /\ \/ /\ mon' = "closed"
          /\ resp' = monChan /\ monChan' = <<>>
          /\ pc' = "phase_end"
          /\ UNCHANGED <<phase, step, err, confirm>>
       \/ /\ guest = "free" /\ inst[monPeer] = "down"
          /\ MonitorRaises(Error("ConnectionResetError", "", NoPattern, ""))
          /\ UNCHANGED <<mon, resp, monChan>>
    /\ UNCHANGED <<timeVars, serVars, envVars, monPeer, guestVars, callRead,
                   ru, sinceSend, matches, appearedAt, wfs, atLaunch,
                   outVars, monTodo, monLate>>

\* time.sleep(3); the phase returns to main(): its locals (s, and
\* monitor_cmd's sock and resp before) are gone
phase_end ==
    /\ pc = "phase_end"
    /\ IF phase = 1
       THEN pc' = "start_qemu" /\ phase' = 2 /\ step' = 1
       ELSE pc' = "done" /\ UNCHANGED <<phase, step>>
    /\ sock' = "none" /\ serPeer' = NoFile /\ buf' = <<>>
    /\ mon' = "none" /\ monPeer' = NoFile
    /\ monChan' = <<>> /\ monTodo' = <<>> /\ resp' = <<>> /\ monLate' = <<>>
    /\ UNCHANGED <<err, timeVars, chan, peerClosed, sent, envVars, guestVars,
                   histVars, outVars>>

(***************************************************************************)
(* The environment: QEMU instances and the guest.                          *)
(***************************************************************************)
\* a launched instance creates both endpoint files and listens
QemuListen(i) ==
    /\ UNCHANGED monIO
    /\ UNCHANGED outVars
    /\ inst[i] = "starting"
    /\ inst' = [inst EXCEPT ![i] = "up"]
    /\ files' = [serial |-> i, monitor |-> i]
    /\ appearedAt' = IF pc \in {"wfs_poll", "wfs_sleep"} THEN clock ELSE appearedAt
    /\ UNCHANGED <<progVars, timeVars, serVars, stopReq, monVars, guestVars,
                   callRead, ru, sinceSend, matches, wfs, confirm, atLaunch>>

\* an instance exits: asked to (it may unlink its endpoint files), or (free
\* guest) killed, which leaves the files
QemuExit(i, unlink) ==
    /\ UNCHANGED monIO
    /\ UNCHANGED outVars
    /\ inst[i] = "up"
    /\ \/ i \in stopReq
       \/ guest = "free" /\ i = phase /\ pc \notin {"done", "failed"} /\ ~unlink
    /\ inst' = [inst EXCEPT ![i] = "down"]
    /\ files' = IF unlink
                THEN [f \in DOMAIN files |-> IF files[f] = i THEN NoFile ELSE files[f]]
                ELSE files
    /\ peerClosed' = IF sock = "open" /\ serPeer = i THEN TRUE ELSE peerClosed
    /\ UNCHANGED <<progVars, timeVars, buf, chan, sock, serPeer, sent, stopReq,
                   monVars, guestVars, histVars>>

\* the monitor of a running instance writes the next piece it has to write
MonitorWrites ==
    /\ mon = "open" /\ inst[monPeer] = "up" /\ monTodo # <<>>
    /\ monChan' = Append(monChan, Head(monTodo))
    /\ monTodo' = Tail(monTodo)
    /\ monLate' = IF pc \in {"mon_send", "mon_recv"}
                  THEN Append(monLate, Head(monTodo))
                  ELSE monLate
    /\ UNCHANGED <<progVars, timeVars, serVars, envVars, monVars, guestVars,
                   histVars, outVars, resp>>

\* the free guest writes a chunk to the console; it writes "login:" only
\* as long as no line has reached it (afterwards the waits are for "~#", and
\* "~" and "#" are the bytes that matter to them)
GuestEmit(c) ==
    /\ UNCHANGED monIO
    /\ UNCHANGED outVars
    /\ guest = "free" /\ sock = "open" /\ ~peerClosed
    /\ pc \in {"step", "read"}
    /\ emitted < MaxPending
    /\ c = LoginPattern => sent[phase] = <<>>
    /\ chan' = chan \o c
    /\ emitted' = emitted + 1
    /\ sinceSend' = sinceSend \o c
    /\ UNCHANGED <<progVars, timeVars, buf, sock, serPeer, peerClosed, sent,
                   envVars, monVars, guest, fakeDelay, banner, bannerDue, due,
                   callRead, ru, matches, appearedAt, wfs, confirm, atLaunch>>

\* the scripted guest greets a new console
FakeBanner ==
    /\ UNCHANGED monIO
    /\ UNCHANGED outVars
    /\ bannerDue /\ sock = "open"
    /\ bannerDue' = FALSE
    /\ chan' = chan \o LoginPattern
    /\ sinceSend' = sinceSend \o LoginPattern
    /\ UNCHANGED <<progVars, timeVars, buf, sock, serPeer, peerClosed, sent,
                   envVars, monVars, guest, fakeDelay, banner, due, emitted,
                   callRead, ru, matches, appearedAt, wfs, confirm, atLaunch>>

\* the scripted guest answers the line it received
FakeReply ==
    /\ UNCHANGED monIO
    /\ UNCHANGED outVars
    /\ due = 0 /\ sock = "open"
    /\ due' = 0 - 1
    /\ chan' = chan \o PromptPattern
    /\ sinceSend' = sinceSend \o PromptPattern
    /\ UNCHANGED <<progVars, timeVars, buf, sock, serPeer, peerClosed, sent,
                   envVars, monVars, guest, fakeDelay, banner, bannerDue, emitted,
                   callRead, ru, matches, appearedAt, wfs, confirm, atLaunch>>

Next ==
    \/ start_qemu
    \/ wait_for_socket_poll
    \/ wait_for_socket_sleep
    \/ Serial_init
    \/ read_until_enter
    \/ Serial_send
    \/ Serial_cmd
    \/ read_until_recv
    \/ read_until_timeout
    \/ read_until_eof
    \/ read_until_expired
    \/ Serial_close
    \/ monitor_cmd_connect
    \/ monitor_cmd_drain
    \/ monitor_cmd_send
    \/ monitor_cmd_recv
    \/ phase_end
    \/ \E i \in Instances : QemuListen(i)
    \/ \E i \in Instances, unlink \in BOOLEAN : QemuExit(i, unlink)
    \/ \E c \in GuestChunks : GuestEmit(c)
    \/ FakeBanner
    \/ FakeReply
    \/ MonitorWrites

Spec == Init /\ [][Next]_vars

(***************************************************************************)
(* Fairness.  The program is one thread: whenever it has a next step, it   *)
(* takes one; time advances, which for the scripted guest and a launching  *)
(* instance means that what they are due to do happens.                    *)
(***************************************************************************)
Program ==
    \/ start_qemu
    \/ wait_for_socket_poll
    \/ wait_for_socket_sleep
    \/ Serial_init
    \/ read_until_enter
    \/ Serial_send
    \/ Serial_cmd
    \/ read_until_recv
    \/ read_until_timeout
    \/ read_until_eof
    \/ read_until_expired
    \/ Serial_close
    \/ monitor_cmd_connect
    \/ monitor_cmd_drain
    \/ monitor_cmd_send
    \/ monitor_cmd_recv
    \/ phase_end

Due == FakeBanner \/ FakeReply \/ \E i \in Instances : QemuListen(i)

FairSpec == Spec /\ WF_vars(Program) /\ WF_vars(Due)

(***************************************************************************)
(* Properties.                                                             *)
(***************************************************************************)
IsPrefix(a, b) == Len(a) <= Len(b) /\ SubSeq(b, 1, Len(a)) = a

\* the lines phase p writes to the console, in order
Commands(p) ==
    LET cs == SelectSeq(Script(p), LAMBDA st : st.op # "read_until")
    IN [i \in 1..Len(cs) |-> cs[i].text]

\* how many of the first k statements of phase p write a line
NumCommands(p, k) ==
    Cardinality({i \in 1..k : Script(p)[i].op # "read_until"})

\* the statement whose read_until has just returned
Returned == Script(phase)[step - 1]

(***************************************************************************)
(* C1: read_until returns success exactly when the pattern is a contiguous *)
(* substring of the bytes accumulated in the buffer up to and including    *)
(* the read that completes the match: a call that is still waiting has not *)
(* accumulated the pattern, a call that returned had it in the buffer      *)
(* after its last read (also when it arrived split over several reads),    *)
(* and a call that raised TimeoutError did so with the deadline passed and *)
(* without the pattern in the buffer.                                      *)
(***************************************************************************)
C1_MatchIffSubstring ==
    /\ pc = "read" => ~Contains(buf, Stmt.pat)
    /\ ru.outcome = "ok" => ru.inBuf
    /\ ru.outcome = "timeout" =>
         /\ ~ru.inBuf
         /\ clock >= deadline
         /\ pc = "failed" /\ err.type = "TimeoutError"

\* a match on a pattern that was not whole in the last read's data
C1_Witness == ru.outcome = "ok" /\ ru.inBuf /\ ~ru.inData

(***************************************************************************)
(* C2: after a successful read_until the buffer is empty, so the next      *)
(* read_until starts from nothing: what a waiting call holds in the buffer *)
(* is what this call received, a match is always on bytes this call        *)
(* received, and a call that receives nothing times out.                   *)
(***************************************************************************)
C2_BufferEmptyAfterMatch ==
    /\ ru.outcome = "ok" => buf = <<>> /\ ru.inCall
    /\ pc \in {"step", "close"} => buf = <<>>
    /\ pc = "read" => buf = callRead
    /\ ru.outcome = "timeout" /\ callRead = <<>> => ~ru.inBuf

\* "~#" awaited again after an earlier match, nothing received: timed out
C2_Witness ==
    /\ pc = "failed" /\ ru.outcome = "timeout" /\ callRead = <<>>
    /\ Stmt.pat = PromptPattern /\ matches[phase] >= 2

C4_LockStep ==
    /\ \A p \in 1..2 : IsPrefix(sent[p], Commands(p))
    /\ \A p \in 1..2 : Len(sent[p]) <= matches[p]
    /\ pc = "failed" /\ ru.outcome = "timeout" =>
         Len(sent[phase]) = NumCommands(phase, step)

\* the wait of the fifth statement of phase 1 timed out: three lines written
C4_Witness ==
    /\ pc = "failed" /\ ru.outcome = "timeout" /\ phase = 1 /\ step = 5
    /\ sent[1] = <<"root", "ip link set eth0 up", "udhcpc -i eth0">>

(***************************************************************************)
(* C5 as claimed: against the scripted guest that answers "root" with "~#" *)
(* and any other line with "~#" after a fixed delay (and emits nothing     *)
(* else), phase1_install completes without error having written every     *)
(* Phase 1 command once and in order.                                      *)
(***************************************************************************)
C5_Original ==
    guest = "fake" /\ ~banner =>
        /\ ~(pc = "failed" /\ phase = 1)
        /\ phase = 2 => sent[1] = Commands(1)

(***************************************************************************)
(* C5, amended: against a scripted guest that emits "login:" when the      *)
(* console connection is opened, answers "root" with "~#" and any other    *)
(* line with "~#" after a fixed delay shorter than every step timeout,     *)
(* phase1_install completes without error and has written every Phase 1    *)
(* command exactly once, in the defined order, ending with "poweroff".     *)
(***************************************************************************)
C5_FakeGuestRun ==
    guest = "fake" /\ banner =>
        /\ ~(pc = "failed" /\ phase = 1)
        /\ IsPrefix(sent[1], Commands(1))
        /\ phase = 2 \/ pc = "phase_end" =>
             /\ sent[1] = Commands(1)
             /\ sent[1][Len(sent[1])] = "poweroff"

\* phase1_install has returned, the guest having answered with a delay
C5_Witness ==
    /\ guest = "fake" /\ banner /\ fakeDelay > 0
    /\ phase = 2 /\ pc = "start_qemu" /\ sent[1] = Commands(1)

(***************************************************************************)
(* C6: when the connection of monitor_cmd("quit") fails because the        *)
(* control endpoint file does not exist or nobody listens on it, the       *)
(* exception does not leave the phase: the phase returns, after Phase 1    *)
(* the run goes on with the launch of Phase 2, and the run never fails     *)
(* with that exception.                                                    *)
(***************************************************************************)
C6_ConfirmationBestEffort ==
    /\ confirm \in {"FileNotFoundError", "ConnectionRefusedError"} =>
         \/ pc \in {"phase_end", "done"}
         \/ phase = 2 /\ pc \in {"start_qemu", "wfs_poll", "wfs_sleep",
                                 "connect", "failed"}
    /\ pc = "failed" =>
         ~(err.path = MONITOR_SOCK
           /\ err.type \in {"FileNotFoundError", "ConnectionRefusedError"})

\* the control endpoint file was gone at the end of Phase 1; Phase 2 launched
C6_Witness ==
    /\ confirm = "FileNotFoundError" /\ phase = 2 /\ pc = "wfs_poll"
    /\ atLaunch[2].launched

(***************************************************************************)
(* C7 as claimed: cmd succeeds exactly when the prompt appears on the      *)
(* channel after the command was written and before the timeout.           *)
(***************************************************************************)
C7_Original ==
    /\ ru.outcome = "ok" /\ Returned.op = "cmd" => ru.inFresh
    /\ ru.outcome = "timeout" /\ Stmt.op = "cmd" => ~ru.inFresh

(***************************************************************************)
(* C7, amended: cmd(command, prompt, timeout) is send(command) followed by *)
(* read_until(prompt, timeout): waiting in either, the command is the last *)
(* line written, the deadline is that of the timeout and the buffer holds  *)
(* what this wait received.  The call succeeds exactly when the prompt is  *)
(* among the bytes received during the wait, which may have been emitted   *)
(* before the command was written; success leaves the buffer empty.        *)
(***************************************************************************)
C7_CmdIsSendThenReadUntil ==
    /\ pc = "read" /\ (Stmt.op = "cmd"
                       \/ (step > 1 /\ Script(phase)[step - 1].op = "send")) =>
         /\ Len(sent[phase]) = NumCommands(phase, step)
         /\ sent[phase][Len(sent[phase])] =
              (IF Stmt.op = "cmd" THEN Stmt.text ELSE Script(phase)[step - 1].text)
         /\ deadline = Ticks(Stmt.timeout)
         /\ buf = callRead
    /\ ru.outcome = "ok" => ru.inCall /\ buf = <<>>
    /\ ru.outcome = "timeout" => ~ru.inCall

\* a cmd that succeeded on a prompt emitted before its command was written
C7_Witness ==
    ru.outcome = "ok" /\ Returned.op = "cmd" /\ ru.inCall /\ ~ru.inFresh

(***************************************************************************)
(* C8: the states of a phase, numbered in the order of the specification,  *)
(* and through both phases.                                                *)
(***************************************************************************)
PhaseState ==
    CASE pc = "start_qemu" -> 1                       \* launching
      [] pc \in {"wfs_poll", "wfs_sleep"} -> 2        \* awaiting console endpoint
      [] pc = "connect" -> 3                          \* awaiting login
      [] pc \in {"step", "read"} /\ step <= 3 -> 3
      [] pc = "step" /\ step = 4 -> 4                 \* authenticated
      [] pc = "read" /\ step >= 4 -> 5                \* executing steps
      [] pc = "step" /\ step > 4 /\ step < Len(Script(phase)) -> 5
      [] pc = "step" /\ step > 4 /\ step = Len(Script(phase)) -> 6  \* shutting down
      [] pc = "close" -> 6
      [] pc \in {"mon_connect", "mon_drain", "mon_send", "mon_recv"} -> 7  \* confirming termination
      [] pc \in {"phase_end", "done"} -> 8            \* done
      [] OTHER -> 0

Rank == 8 * (phase - 1) + PhaseState

(***************************************************************************)
(* C8: every step of the run stays in the state it is in or moves to the   *)
(* next state of the sequence launching, awaiting console endpoint,        *)
(* awaiting login, authenticated, executing steps, shutting down,          *)
(* confirming termination, done (Phase 2's launching following Phase 1's   *)
(* done), or aborts the run; no state is skipped or entered again, and an  *)
(* aborted run stays aborted.                                              *)
(***************************************************************************)
C8_LinearPhases ==
    [][/\ pc = "failed" => pc' = "failed"
       /\ pc' = "failed" \/ Rank' = Rank \/ Rank' = Rank + 1]_vars

\* both phases ran through all their states
C8_Witness == pc = "done" /\ phase = 2 /\ Rank = 16 /\ matches[2] > 3

(***************************************************************************)
(* C9 as claimed: at most one instance is active at any time, and at every *)
(* launch no endpoint file exists and no earlier instance is running.      *)
(***************************************************************************)
C9_Original ==
    /\ Cardinality({i \in Instances : inst[i] \in {"starting", "up"}}) <= 1
    /\ \A p \in 1..2 : atLaunch[p].launched =>
         /\ ~atLaunch[p].serial /\ ~atLaunch[p].monitor
         /\ atLaunch[p].running = {}

(***************************************************************************)
(* C9, amended: whenever start_qemu launches an instance, neither the      *)
(* console nor the control endpoint file exists on disk (files left by an  *)
(* earlier instance have been removed), and Phase 2's launch happens only  *)
(* after Phase 1 has written "poweroff", closed the console and attempted  *)
(* the monitor's quit.  That an earlier instance has terminated is not     *)
(* checked, and it may still be running.                                   *)
(***************************************************************************)
C9_NoEndpointsAtLaunch ==
    /\ \A p \in 1..2 : atLaunch[p].launched =>
         ~atLaunch[p].serial /\ ~atLaunch[p].monitor
    /\ atLaunch[2].launched =>
         /\ atLaunch[1].launched
         /\ sent[1] = Commands(1)
         /\ atLaunch[2].confirmed
    /\ \A f \in {"serial", "monitor"} :
         files[f] # NoFile /\ atLaunch[1].launched => atLaunch[files[f]].launched

\* Phase 2 launched while Phase 1's endpoint files were still on disk
C9_Witness ==
    /\ atLaunch[2].launched /\ inst[2] = "up" /\ files.serial = 2
    /\ inst[1] = "down" /\ confirm = "ConnectionRefusedError"

C11_Original ==
    pc = "failed" /\ ru.outcome = "timeout" =>
        /\ err.pattern = Stmt.pat
        /\ buf = callRead
        /\ err = TimeoutMessage(PromptPattern) => buf = <<>>

(***************************************************************************)
(* C11, amended: a read_until whose timeout elapses without a match raises *)
(* a TimeoutError whose message names the awaited pattern and nothing      *)
(* else; the bytes accumulated so far are not in the error, they stay in   *)
(* the session buffer, which the timeout does not clear.                   *)
(***************************************************************************)
C11_TimeoutKeepsBuffer ==
    pc = "failed" /\ ru.outcome = "timeout" =>
        /\ err = TimeoutMessage(Stmt.pat)
        /\ clock >= deadline
        /\ buf = callRead
        /\ ~Contains(buf, Stmt.pat)

\* a wait timed out having accumulated something
C11_Witness ==
    pc = "failed" /\ ru.outcome = "timeout" /\ buf # <<>> /\ buf = callRead

(***************************************************************************)
(* C12: what a read_until call has written to sys.stdout is at any moment  *)
(* what recv has returned to it, in the same order and once, and it is so  *)
(* when the call ends, by a match (the bytes after the match point         *)
(* included) or by a timeout.                                              *)
(***************************************************************************)
C12_SinkMirrorsReads ==
    /\ pc = "read" => sink = callRead
    /\ ru.outcome \in {"ok", "timeout"} => ru.mirrored
    /\ pc = "failed" /\ ru.outcome = "timeout" => sink = callRead

\* a match in a read that brought more than the pattern
C12_Witness ==
    ru.outcome = "ok" /\ ru.mirrored /\ ru.trailing /\ ru.inData

(***************************************************************************)
(* C13: a match empties the buffer whatever followed the match point, a    *)
(* second copy of the pattern too; the next wait holds only what it        *)
(* received itself, and matches only on that.                              *)
(***************************************************************************)
C13_TrailingDiscarded ==
    /\ ru.outcome = "ok" /\ (ru.trailing \/ ru.lost) => buf = <<>>
    /\ ru.lost => ru.trailing /\ ru.outcome = "ok"
    /\ pc = "read" => buf = callRead /\ ~Contains(buf, Stmt.pat)
    /\ ru.outcome = "ok" => ru.inCall

\* two prompts came in one read: the wait matched, the second one is gone
C13_Witness ==
    /\ ru.outcome = "ok" /\ ru.lost /\ Returned.pat = PromptPattern
    /\ Stmt.op = "cmd" /\ buf = <<>>

\* monitor_cmd has returned normally to the phase
MonitorReturned == pc = "phase_end" /\ confirm = "connected"

(***************************************************************************)
(* C14 as claimed: monitor_cmd connects afresh, drains the banner, writes  *)
(* the command and returns only what arrived after the command was         *)
(* written; no banner byte is part of what it returns, and the connection  *)
(* is closed when it returns.                                              *)
(***************************************************************************)
C14_Original ==
    /\ pc = "mon_connect" => mon = "none"
    /\ MonitorReturned =>
         /\ mon = "closed"
         /\ \A i \in DOMAIN resp : resp[i] # "B"

(***************************************************************************)
(* C14, amended: monitor_cmd connects afresh on every call, reads once     *)
(* what has arrived (the banner bytes present by then), writes the         *)
(* command, and returns what arrived after that one read: the response,    *)
(* preceded by any banner bytes that came too late for the first read (the *)
(* empty string if nothing arrived); the banner bytes read first are never *)
(* part of what it returns, and the connection is closed before it         *)
(* returns.                                                                *)
(***************************************************************************)
C14_MonitorCmd ==
    /\ pc = "mon_connect" => mon = "none" /\ monChan = <<>>
    /\ pc \in {"mon_drain", "mon_send", "mon_recv"} => mon = "open"
    /\ pc \in {"mon_send", "mon_recv"} => monChan = monLate
    /\ pc = "mon_recv" => monPeer \in stopReq
    /\ MonitorReturned => mon = "closed" /\ resp = monLate /\ monChan = <<>>

\* the banner was drained and the response to the command returned
C14_Witness == MonitorReturned /\ resp = <<"R">> /\ monTodo = <<>>

\* how many of the statements of phase p wait for a pattern
NumWaits(p) ==
    Cardinality({i \in 1..Len(Script(p)) : Script(p)[i].op # "send"})

(***************************************************************************)
(* C15: Phase 2 launches its instance only after Phase 1 has run to its    *)
(* end: every Phase 1 command written, "poweroff" last, every wait         *)
(* matched, the console closed and the monitor's quit attempted.  While    *)
(* Phase 1 runs, and after it has failed, Phase 2 has launched nothing and *)
(* written nothing.                                                        *)
(***************************************************************************)
C15_PhasesInSequence ==
    /\ atLaunch[2].launched \/ phase = 2 =>
         /\ atLaunch[1].launched
         /\ sent[1] = Commands(1)
         /\ sent[1][Len(sent[1])] = "poweroff"
         /\ matches[1] = NumWaits(1)
         /\ closes[1] = 1
         /\ phase = 2
    /\ atLaunch[2].launched => atLaunch[2].confirmed
    /\ phase = 1 =>
         /\ ~atLaunch[2].launched
         /\ sent[2] = <<>> /\ matches[2] = 0 /\ closes[2] = 0
         /\ inst[2] = "absent"

\* Phase 2 is writing its commands, Phase 1 having run to its end
C15_Witness ==
    /\ phase = 2 /\ pc = "read" /\ Len(sent[2]) = 2
    /\ atLaunch[2].confirmed /\ closes[1] = 1

(***************************************************************************)
(* C16: the last statement of a phase is a send of "poweroff" that no wait *)
(* follows.  The console is closed once per phase, after every wait of the *)
(* phase has matched and "poweroff" has been written; the monitor's quit   *)
(* is attempted after the close only; and after the close nothing more is  *)
(* written to or read from the console.                                    *)
(***************************************************************************)
C16_ShutdownOrder ==
    /\ \A p \in 1..2 :
         /\ closes[p] <= 1
         /\ Script(p)[Len(Script(p))] = SD("poweroff")
         /\ closes[p] = 1 => sent[p] = Commands(p) /\ matches[p] = NumWaits(p)
         /\ Len(sent[p]) = Len(Commands(p)) => matches[p] = NumWaits(p)
    /\ pc = "close" =>
         /\ sock = "open" /\ closes[phase] = 0
         /\ sent[phase] = Commands(phase)
    /\ pc \in {"mon_connect", "mon_drain", "mon_send", "mon_recv", "phase_end"} =>
         sock = "closed" /\ closes[phase] = 1
    /\ pc \in {"step", "read"} => sock = "open" /\ closes[phase] = 0
    /\ mon # "none" \/ (confirm # "none" /\ sock # "none") => closes[phase] = 1

\* the phase has closed the console and is about to try the monitor
C16_Witness ==
    /\ pc = "mon_connect" /\ phase = 2 /\ sock = "closed" /\ closes = <<1, 1>>
    /\ sent[2][Len(sent[2])] = "poweroff"

(***************************************************************************)
(* C17: a wait never runs past its deadline (wait_for_socket: past the     *)
(* poll that follows its deadline), and every run ends, in success or in a *)
(* fatal error, whatever the guest does.                                   *)
(***************************************************************************)
C17_Terminates ==
    /\ [](/\ pc = "read" => clock <= deadline /\ deadline = Ticks(Stmt.timeout)
          /\ pc \in {"wfs_poll", "wfs_sleep"} =>
               deadline = SocketTimeout /\ clock <= deadline + PollInterval)
    /\ <>(pc \in {"done", "failed"})

\* the guest never wrote anything: the run ended at the first wait's deadline
C17_Witness ==
    /\ pc = "failed" /\ ru.outcome = "timeout" /\ phase = 1 /\ step = 1
    /\ callRead = <<>> /\ clock = deadline /\ guest = "free"

(***************************************************************************)
(* C18: the only exceptions a run survives are ConnectionRefusedError and  *)
(* FileNotFoundError leaving monitor_cmd("quit"); any other exception      *)
(* leaving monitor_cmd, and a failure to connect to the console endpoint,  *)
(* ends the run with that exception.                                       *)
(***************************************************************************)
C18_OnlyConfirmationSwallowed ==
    /\ [](/\ confirm \notin {"none", "connected", "ConnectionRefusedError",
                             "FileNotFoundError"} =>
               pc = "failed" /\ err.type = confirm
          /\ err # NoError => pc = "failed"
          /\ pc = "phase_end" => confirm \in {"connected", "ConnectionRefusedError",
                                              "FileNotFoundError"})
    /\ [][pc = "connect" /\ pc' # pc =>
            IF ConnectError(files.serial) = "none"
            THEN pc' = "step" /\ err' = NoError
            ELSE /\ pc' = "failed"
                 /\ err'.type = ConnectError(files.serial)
                 /\ err'.path = SERIAL_SOCK]_vars

\* the instance went away between monitor_cmd's connect and its sendall
C18_Witness ==
    /\ pc = "failed" /\ confirm = "BrokenPipeError" /\ err.type = "BrokenPipeError"
    /\ mon = "open"

(***************************************************************************)
(* C19: the console endpoint file that lets wait_for_socket return is the  *)
(* one created by the instance start_qemu launched in this phase, after    *)
(* start_qemu had removed whatever file was there.                         *)
(***************************************************************************)
C19_EndpointIsFresh ==
    /\ wfs.result = "ok" =>
         /\ wfs.seen = phase
         /\ atLaunch[phase].launched /\ ~atLaunch[phase].serial
         /\ inst[phase] \in {"up", "down"}
    /\ pc = "connect" => wfs.result = "ok"
    /\ pc \in {"wfs_poll", "wfs_sleep"} => files.serial \in {NoFile, phase}

\* Phase 2 saw its own endpoint although Phase 1's file had been left behind
C19_Witness ==
    /\ pc = "connect" /\ wfs.result = "ok" /\ phase = 2 /\ wfs.seen = 2
    /\ inst[1] = "down" /\ confirm = "ConnectionRefusedError"

(***************************************************************************)
(* C20: a run ended by an exception does nothing more.  When a wait for a  *)
(* pattern failed, the console is still open and was not closed,           *)
(* "poweroff" was not written, monitor_cmd was not called, and the         *)
(* instance of the phase was not told to stop; afterwards the program      *)
(* changes none of this, nor the endpoint files.                           *)
(***************************************************************************)
C20_NoCleanupOnAbort ==
    /\ [](/\ err # NoError => pc = "failed"
          /\ pc = "failed" /\ ru.outcome = "timeout" =>
               /\ atLaunch[phase].launched
               /\ sock = "open" /\ closes[phase] = 0
               /\ \A i \in DOMAIN sent[phase] : sent[phase][i] # "poweroff"
               /\ confirm = "none" /\ mon = "none"
               /\ serPeer = phase /\ phase \notin stopReq)
    /\ [][pc = "failed" =>
            /\ UNCHANGED <<pc, err, sock, sent, closes, mon, confirm, stopReq,
                           atLaunch>>
            /\ \A f \in DOMAIN files : files'[f] = NoFile => files[f] = NoFile
                                                            \/ files[f] \in stopReq]_vars

\* a command's prompt did not come: the instance runs on, its files in place
C20_Witness ==
    /\ pc = "failed" /\ ru.outcome = "timeout" /\ step > 3 /\ phase = 2
    /\ sock = "open" /\ inst[2] = "up" /\ files = [serial |-> 2, monitor |-> 2]

(***************************************************************************)
(* C21: when recv returns b"" during read_until (the console peer closed)  *)
(* the call neither raises then nor returns: that pass and every later one *)
(* leave self.buf and sys.stdout as they are, the call stays in its loop   *)
(* while time is left, it never ends with a match, and it ends, at its     *)
(* deadline, with the TimeoutError that names the pattern.                 *)
(***************************************************************************)
C21_PeerClosedReadTimesOut ==
    /\ [](/\ ru.eof /\ pc = "read" => peerClosed /\ chan = <<>> /\ err = NoError
          /\ ru.eof => ru.outcome \in {"none", "timeout"}
          /\ ru.eof /\ ru.outcome = "timeout" =>
               /\ pc = "failed" /\ err = TimeoutMessage(Stmt.pat)
               /\ clock >= deadline)
    /\ [][pc = "read" /\ ru'.eof =>
            /\ buf' = buf /\ sink' = sink /\ callRead' = callRead
            /\ \/ pc' = "read" /\ err' = err /\ ru'.outcome = "none"
               \/ /\ ~ReadLoopCond /\ pc' = "failed"
                  /\ ru'.outcome = "timeout"]_vars

\* the peer went away after writing bytes that did not match; the wait ran
\* through empty reads to its deadline
C21_Witness ==
    /\ pc = "failed" /\ ru.eof /\ ru.outcome = "timeout" /\ buf # <<>>
    /\ err = TimeoutMessage(Stmt.pat) /\ peerClosed

=============================================================================
